---- MODULE Spec2Model ----
(***************************************************************************)
(* Model of s27597_2025-2.py: the NCBI retrieval pipeline                  *)
(*   main -> NCBIRetriever.search -> NCBIRetriever.fetch_records ->        *)
(*   filter_records -> save_csv -> plot_lengths.                           *)
(* The remote service (Entrez), the file system and matplotlib are the     *)
(* environment: every call to them either succeeds with a value drawn from *)
(* a small set or raises.                                                  *)
(***************************************************************************)
EXTENDS Integers, Sequences, FiniteSets, TLC

(* ------------------------------ bounds -------------------------------- *)
\* longest sequence (in bases) of a record the service returns
MaxSeqLen == 2
\* most records the service returns over one whole fetch_records call
MaxRaw == 3
\* largest Count the service reports
MaxCount == 1
\* fetch_records is exercised with max_records up to (MaxQ+1) batches
MaxQ == 2

(* ------------------------- program constants -------------------------- *)
\* line 31: batch_size = 500
batch_size == 500
\* line 81: retriever.fetch_records(max_records=1000)
main_max_records == 1000

(* --------------------------- value domains ---------------------------- *)
TaxIds == {"9606"}
Organisms == {"Homo sapiens"}
WebEnvs == {"MCID_1", "MCID_2"}
QueryKeys == {"1"}
Accessions == {"AB1", "AB2"}
Descriptions == {"desc"}
Bases == {"A"}

\* r.seq is a sequence of bases; len(r.seq) is its length
Seqs == UNION {[1..n -> Bases] : n \in 0..MaxSeqLen}

\* a parsed SeqRecord: the fields the program reads (r.id, r.seq, r.description)
Records == [id : Accessions, seq : Seqs, description : Descriptions]

\* text typed at a prompt: a sequence of characters
DigitChars == <<"0", "1", "2", "3", "4", "5", "6", "7", "8", "9">>

DigitValue(c) == (CHOOSE i \in 1..10 : DigitChars[i] = c) - 1

IsDigit(c) == \E i \in 1..10 : DigitChars[i] = c

\* the decimal numeral of n (0 <= n <= 99), as the operator would type it
Numeral(n) == IF n < 10 THEN <<DigitChars[n + 1]>>
              ELSE <<DigitChars[(n \div 10) + 1], DigitChars[(n % 10) + 1]>>

\* what the operator may type for a length bound: a numeral, nothing, or junk
LenInputs == {Numeral(n) : n \in 0..MaxSeqLen} \cup {<<>>, <<"x">>, <<"1", "x">>, <<"-">>}

\* the arguments fetch_records is exercised with on its own
FetchArgs == {q * batch_size + r : q \in 0..MaxQ, r \in {1, 200, batch_size - 1, batch_size}}

VARIABLES
    pc,           \* position of the run
    outcome,      \* how the run ended ("running" until then)
    taxid,        \* line 70
    min_len,      \* line 71 (meaningful once parsed >= 1)
    max_len,      \* line 72 (meaningful once parsed = 2)
    parsed,       \* how many of the two length bounds int() has parsed
    configured,   \* Entrez.email / api_key / tool set (lines 9-11)
    self,         \* attributes of the NCBIRetriever: a function name -> value
    ret,          \* value returned by search (line 75: count)
    calls,        \* every call to the remote service, in order of issue
    reply,        \* what the service answered to esearch (<<>>: nothing, it raised)
    max_records,  \* argument of fetch_records
    start,        \* loop variable of fetch_records (line 33)
    all_records,  \* line 32
    raw_records,  \* line 81
    filtered,     \* line 82
    df,           \* the frame save_csv returns (line 90)
    df_sorted,    \* line 56
    open_figs,    \* number of matplotlib figures open
    files,        \* files written in this run, in order: [name, rows]
    reported      \* the count printed on line 93 (-1: nothing printed)

vars == <<pc, outcome, taxid, min_len, max_len, parsed, configured, self, ret,
          calls, reply, max_records, start, all_records, raw_records, filtered, df,
          df_sorted, open_figs, files, reported>>

(* ------------------------------ helpers ------------------------------- *)
Has(obj, attr) == attr \in DOMAIN obj

SetAttr(obj, attr, val) == [a \in DOMAIN obj \cup {attr} |-> IF a = attr THEN val ELSE obj[a]]

Min(a, b) == IF a <= b THEN a ELSE b

\* sequences over S of length at most n
SeqsUpTo(S, n) == UNION {[1..k -> S] : k \in 0..n}

\* value of a string of decimal digits, most significant first
RECURSIVE DecimalValue(_)
DecimalValue(text) ==
    IF text = <<>> THEN 0
    ELSE 10 * DecimalValue(SubSeq(text, 1, Len(text) - 1)) + DigitValue(text[Len(text)])

\* int(text), lines 71-72, for text without blanks or underscores: an optional
\* sign and one or more decimal digits give the value; anything else raises
\* ValueError (ok = FALSE)
int(text) ==
    LET signed == text # <<>> /\ text[1] \in {"-", "+"}
        digits == IF signed THEN Tail(text) ELSE text
    IN  IF digits # <<>> /\ \A i \in 1..Len(digits) : IsDigit(digits[i])
        THEN [ok |-> TRUE,
              val |-> IF signed /\ text[1] = "-" THEN -DecimalValue(digits)
                      ELSE DecimalValue(digits)]
        ELSE [ok |-> FALSE, val |-> 0]

(* ------------------------- pure functions ----------------------------- *)
\* line 42 with the lower bound made exclusive
InRange_exclusive(r, lo, hi) == lo < Len(r.seq) /\ Len(r.seq) <= hi

\* line 42: the predicate of the list comprehension
InRange(r, lo, hi) == lo <= Len(r.seq) /\ Len(r.seq) <= hi

\* lines 41-42: filter_records, a left-to-right scan that keeps matching records
RECURSIVE filter_records(_, _, _)
filter_records(records, lo, hi) ==
    IF records = <<>> THEN <<>>
    ELSE LET rest == filter_records(Tail(records), lo, hi)
         IN  IF InRange(Head(records), lo, hi) THEN <<Head(records)>> \o rest ELSE rest

\* lines 45-50: one row per record
Row(r) == [accession |-> r.id, length |-> Len(r.seq), description |-> r.description]

DataFrame(records) == [i \in 1..Len(records) |-> Row(records[i])]

Perms(n) == {p \in [1..n -> 1..n] : \A i, j \in 1..n : i # j => p[i] # p[j]}

\* the rows of frame are in non-increasing order of length
IsDescending(frame) ==
    \A i \in 1..(Len(frame) - 1) : frame[i].length >= frame[i + 1].length

\* lines 51 and 56: sort_values(by="length", ascending=False) with the default
\* kind="quicksort", which is not a stable sort: the result is some arrangement
\* of the rows in non-increasing order of length, rows of equal length in any
\* order. The set of the results the call can produce.
sort_values(frame) ==
    {s \in {[i \in 1..Len(frame) |-> frame[p[i]]] : p \in Perms(Len(frame))} :
        IsDescending(s)}

\* line 36 without the min(): every batch asks for a full batch_size
BatchRetmax_full(offset, maxrec) == batch_size

\* line 36: retmax of the batch starting at offset
BatchRetmax(offset, maxrec) == Min(batch_size, maxrec - offset)

\* lines 88-89: output file names
csv_name(id) == <<"taxid_", id, "_filtered.csv">>
png_name(id) == <<"taxid_", id, "_plot.png">>

(* ---------------------- the remote service ---------------------------- *)
\* a call to Entrez as the program issues it
TaxonomyCall(id) == [fn |-> "efetch", db |-> "taxonomy", id |-> id]

SearchCall(id) ==
    [fn |-> "esearch", db |-> "nucleotide", term |-> <<"txid", id, "[Organism]">>,
     usehistory |-> "y", retmax |-> 0]

FetchCall(offset, maxrec, obj) ==
    [fn |-> "efetch", db |-> "nucleotide", retstart |-> offset,
     retmax |-> BatchRetmax(offset, maxrec),
     webenv |-> obj["webenv"], query_key |-> obj["query_key"]]

\* the parsed reply to esearch: a dictionary that may lack any of its keys
SearchKeys == {"Count", "WebEnv", "QueryKey"}

SearchReplies ==
    {[k \in keys |-> full[k]] :
        keys \in SUBSET SearchKeys,
        full \in [Count : 0..MaxCount, WebEnv : WebEnvs, QueryKey : QueryKeys]}

(* ------------------------------ Init ---------------------------------- *)
Fresh ==
    /\ outcome = "running"
    /\ taxid = ""
    /\ min_len = 0
    /\ max_len = 0
    /\ parsed = 0
    /\ configured = FALSE
    /\ ret = 0
    /\ calls = <<>>
    /\ reply = <<>>
    /\ max_records = 0
    /\ start = 0
    /\ all_records = <<>>
    /\ raw_records = <<>>
    /\ filtered = <<>>
    /\ df = <<>>
    /\ df_sorted = <<>>
    /\ open_figs = 0
    /\ files = <<>>
    /\ reported = -1

\* line 97: the process starts in main; no NCBIRetriever exists yet
Init ==
    /\ pc = "main"
    /\ self = <<>>
    /\ Fresh

Crash(why) == pc' = "crashed" /\ outcome' = why

(* ------------------------------ main ---------------------------------- *)
\* lines 68-72: the five prompts; int() raises ValueError on a bad bound
MainInputs ==
    /\ pc = "main"
    /\ \E id \in TaxIds, lo \in LenInputs, hi \in LenInputs :
         /\ taxid' = id
         /\ IF ~int(lo).ok
            THEN /\ Crash("ValueError")
                 /\ UNCHANGED <<min_len, max_len, parsed>>
            ELSE /\ min_len' = int(lo).val
                 /\ IF ~int(hi).ok
                    THEN /\ Crash("ValueError")
                         /\ parsed' = 1
                         /\ UNCHANGED max_len
                    ELSE /\ max_len' = int(hi).val
                         /\ parsed' = 2
                         /\ pc' = "init"
                         /\ UNCHANGED outcome
    /\ UNCHANGED <<configured, self, ret, calls, max_records, start, all_records,
                   raw_records, filtered, df, df_sorted, open_figs, files, reported, reply>>

\* lines 8-11, 74: NCBIRetriever(email, api_key) sets the Entrez globals
Retriever_init ==
    /\ pc = "init"
    /\ configured' = TRUE
    /\ pc' = "search_taxonomy"
    /\ UNCHANGED <<outcome, taxid, min_len, max_len, parsed, self, ret, calls,
                   max_records, start, all_records, raw_records, filtered, df,
                   df_sorted, open_figs, files, reported, reply>>

\* lines 15-19 (and 26-28): the taxonomy lookup; any exception makes search return 0
SearchTaxonomy ==
    /\ pc = "search_taxonomy"
    /\ calls' = Append(calls, TaxonomyCall(taxid))
    /\ \/ \E name \in Organisms :
            /\ self' = SetAttr(self, "organism", name)
            /\ pc' = "search_nucleotide"
            /\ UNCHANGED ret
       \/ /\ ret' = 0
          /\ pc' = "searched"
          /\ UNCHANGED self
    /\ UNCHANGED <<outcome, taxid, min_len, max_len, parsed, configured,
                   max_records, start, all_records, raw_records, filtered, df,
                   df_sorted, open_figs, files, reported, reply>>

\* lines 22-28 with the handler returning the count already stored
StoreSearch_stored_count(obj, res) ==
    IF ~Has(res, "Count") THEN [obj |-> obj, ret |-> 0]
    ELSE LET o1 == SetAttr(obj, "count", res["Count"]) IN
         IF ~Has(res, "WebEnv") THEN [obj |-> o1, ret |-> res["Count"]]
         ELSE LET o2 == SetAttr(o1, "webenv", res["WebEnv"]) IN
              IF ~Has(res, "QueryKey") THEN [obj |-> o2, ret |-> res["Count"]]
              ELSE [obj |-> SetAttr(o2, "query_key", res["QueryKey"]),
                    ret |-> res["Count"]]

\* lines 22-25 on a parsed reply res: the attributes stored before the first
\* missing key raises KeyError, and the value search returns
StoreSearch(obj, res) ==
    IF ~Has(res, "Count") THEN [obj |-> obj, ret |-> 0]
    ELSE LET o1 == SetAttr(obj, "count", res["Count"]) IN
         IF ~Has(res, "WebEnv") THEN [obj |-> o1, ret |-> 0]
         ELSE LET o2 == SetAttr(o1, "webenv", res["WebEnv"]) IN
              IF ~Has(res, "QueryKey") THEN [obj |-> o2, ret |-> 0]
              ELSE [obj |-> SetAttr(o2, "query_key", res["QueryKey"]),
                    ret |-> res["Count"]]

\* lines 20-28: the history-enabled search; the call or Entrez.read may raise
SearchNucleotide ==
    /\ pc = "search_nucleotide"
    /\ calls' = Append(calls, SearchCall(taxid))
    /\ \/ \E res \in SearchReplies :
            /\ reply' = res
            /\ self' = StoreSearch(self, res).obj
            /\ ret' = StoreSearch(self, res).ret
       \/ /\ reply' = <<>>
          /\ ret' = 0
          /\ UNCHANGED self
    /\ pc' = "searched"
    /\ UNCHANGED <<outcome, taxid, min_len, max_len, parsed, configured,
                   max_records, start, all_records, raw_records, filtered, df,
                   df_sorted, open_figs, files, reported>>

\* line 76 testing for a negative count instead of zero
NoResults_negative(count) == count < 0

\* line 76: the test main makes on the value search returned
NoResults(count) == count = 0

\* lines 76-78: "No results." and return
MainNoResults ==
    /\ pc = "searched"
    /\ NoResults(ret)
    /\ pc' = "done"
    /\ outcome' = "no_results"
    /\ UNCHANGED <<taxid, min_len, max_len, parsed, configured, self, ret, calls,
                   max_records, start, all_records, raw_records, filtered, df,
                   df_sorted, open_figs, files, reported, reply>>

\* lines 80-81 and 31-32: main calls fetch_records(max_records=1000)
MainFetch ==
    /\ pc = "searched"
    /\ ~NoResults(ret)
    /\ max_records' = main_max_records
    /\ start' = 0
    /\ all_records' = <<>>
    /\ pc' = "fetch"
    /\ UNCHANGED <<outcome, taxid, min_len, max_len, parsed, configured, self, ret,
                   calls, raw_records, filtered, df, df_sorted, open_figs, files,
                   reported, reply>>

(* -------------------------- fetch_records ----------------------------- *)
\* line 33: range(0, max_records, batch_size) has another offset to visit
MoreBatches == start < max_records

\* lines 34-38 with the exception swallowed and the same batch tried again
FetchFailure_retry == UNCHANGED <<pc, outcome, all_records, start>>

\* lines 34-38 raise: nothing in fetch_records or main catches the exception,
\* so the loop and the run end there
FetchFailure ==
    /\ Crash("fetch_error")
    /\ UNCHANGED <<all_records, start>>

\* lines 33-38: one turn of the loop. Reading self.webenv or self.query_key
\* raises AttributeError when search has not stored it; efetch or SeqIO.parse
\* may raise; nothing in fetch_records or main catches either.
FetchBatch ==
    /\ pc = "fetch"
    /\ MoreBatches
    /\ IF ~(Has(self, "webenv") /\ Has(self, "query_key"))
       THEN /\ Crash("AttributeError")
            /\ UNCHANGED <<calls, all_records, start>>
       ELSE /\ calls' = Append(calls, FetchCall(start, max_records, self))
            /\ \/ \E batch \in SeqsUpTo(Records, MaxRaw - Len(all_records)) :
                    /\ all_records' = all_records \o batch
                    /\ start' = start + batch_size
                    /\ UNCHANGED <<pc, outcome>>
               \/ FetchFailure
    /\ UNCHANGED <<taxid, min_len, max_len, parsed, configured, self, ret,
                   max_records, raw_records, filtered, df, df_sorted, open_figs,
                   files, reported, reply>>

\* lines 39 and 81: the loop is over; raw_records = all_records
FetchReturn ==
    /\ pc = "fetch"
    /\ ~MoreBatches
    /\ raw_records' = all_records
    /\ pc' = "filter"
    /\ UNCHANGED <<outcome, taxid, min_len, max_len, parsed, configured, self, ret,
                   calls, max_records, start, all_records, filtered, df, df_sorted,
                   open_figs, files, reported, reply>>

(* ----------------------- filter, save, plot --------------------------- *)
\* line 84 with the test dropped: main goes on to save_csv
NoMatch_never(filt) == FALSE

\* line 84: not filtered
NoMatch(filt) == filt = <<>>

\* lines 82-86: filter; "No records match length criteria." and return when empty
MainFilter ==
    /\ pc = "filter"
    /\ filtered' = filter_records(raw_records, min_len, max_len)
    /\ IF NoMatch(filtered')
       THEN pc' = "done" /\ outcome' = "no_match"
       ELSE pc' = "save_csv" /\ UNCHANGED outcome
    /\ UNCHANGED <<taxid, min_len, max_len, parsed, configured, self, ret, calls,
                   max_records, start, all_records, raw_records, df, df_sorted,
                   open_figs, files, reported, reply>>

\* lines 44-53 and 88-90: build the frame, sort it in place, write it. to_csv
\* may raise (the file then exists, truncated, or does not).
save_csv ==
    /\ pc = "save_csv"
    /\ \E sorted \in sort_values(DataFrame(filtered)) :
         \/ /\ files' = Append(files, [name |-> csv_name(taxid), rows |-> sorted])
            /\ df' = sorted
            /\ pc' = "plot"
            /\ UNCHANGED outcome
         \/ /\ files' \in {files, Append(files, [name |-> csv_name(taxid), rows |-> <<>>])}
            /\ Crash("csv_error")
            /\ UNCHANGED df
    /\ UNCHANGED <<taxid, min_len, max_len, parsed, configured, self, ret, calls,
                   max_records, start, all_records, raw_records, filtered,
                   df_sorted, open_figs, reported, reply>>

\* lines 56-57: plot_lengths sorts a copy of the frame and opens a figure
plot_figure ==
    /\ pc = "plot"
    /\ df_sorted' \in sort_values(df)
    /\ open_figs' = open_figs + 1
    /\ pc' = "plot_save"
    /\ UNCHANGED <<outcome, taxid, min_len, max_len, parsed, configured, self, ret,
                   calls, max_records, start, all_records, raw_records, filtered,
                   df, files, reported, reply>>

\* lines 58-64: draw the series and savefig; either may raise, and nothing
\* between the figure's creation and line 65 catches it
plot_savefig ==
    /\ pc = "plot_save"
    /\ \/ /\ files' = Append(files, [name |-> png_name(taxid), rows |-> df_sorted])
          /\ pc' = "plot_close"
          /\ UNCHANGED outcome
       \/ /\ files' \in {files, Append(files, [name |-> png_name(taxid), rows |-> <<>>])}
          /\ Crash("plot_error")
    /\ UNCHANGED <<taxid, min_len, max_len, parsed, configured, self, ret, calls,
                   max_records, start, all_records, raw_records, filtered, df,
                   df_sorted, open_figs, reported, reply>>

\* line 65: plt.close()
plot_close ==
    /\ pc = "plot_close"
    /\ open_figs' = open_figs - 1
    /\ pc' = "report"
    /\ UNCHANGED <<outcome, taxid, min_len, max_len, parsed, configured, self, ret,
                   calls, max_records, start, all_records, raw_records, filtered,
                   df, df_sorted, files, reported, reply>>

\* line 93 printing len(raw_records)
ReportedCount_raw(raw, filt) == Len(raw)

\* line 93: the count printed, len(filtered)
ReportedCount(raw, filt) == Len(filt)

\* lines 93-94: report the count and the two paths; main returns
MainReport ==
    /\ pc = "report"
    /\ reported' = ReportedCount(raw_records, filtered)
    /\ pc' = "done"
    /\ outcome' = "saved"
    /\ UNCHANGED <<taxid, min_len, max_len, parsed, configured, self, ret, calls,
                   max_records, start, all_records, raw_records, filtered, df,
                   df_sorted, open_figs, files, reply>>

(* -------------------------- specifications ---------------------------- *)
Next ==
    \/ MainInputs
    \/ Retriever_init
    \/ SearchTaxonomy
    \/ SearchNucleotide
    \/ MainNoResults
    \/ MainFetch
    \/ FetchBatch
    \/ FetchReturn
    \/ MainFilter
    \/ save_csv
    \/ plot_figure
    \/ plot_savefig
    \/ plot_close
    \/ MainReport

\* one run of the program
Spec == Init /\ [][Next]_vars

\* the retrievers fetch_records is exercised on: search stored every attribute,
\* or one of the two tokens was never stored
FetchRetrievers ==
    {[a \in attrs |-> full[a]] :
        attrs \in {{"organism", "count", "webenv", "query_key"},
                   {"organism", "count", "webenv"},
                   {"organism", "count", "query_key"}},
        full \in [organism : Organisms, count : 1..MaxCount,
                  webenv : WebEnvs, query_key : QueryKeys]}

\* fetch_records called on its own (lines 30-32) with max_records >= 1
InitFetch ==
    /\ pc = "fetch"
    /\ self \in FetchRetrievers
    /\ max_records \in FetchArgs
    /\ start = 0
    /\ all_records = <<>>
    /\ outcome = "running"
    /\ taxid \in TaxIds
    /\ min_len = 0
    /\ max_len = 0
    /\ parsed = 2
    /\ configured = TRUE
    /\ ret = 0
    /\ calls = <<>>
    /\ reply = <<>>
    /\ raw_records = <<>>
    /\ filtered = <<>>
    /\ df = <<>>
    /\ df_sorted = <<>>
    /\ open_figs = 0
    /\ files = <<>>
    /\ reported = -1

NextFetch ==
    \/ FetchBatch
    \/ FetchReturn

SpecFetch == InitFetch /\ [][NextFetch]_vars

\* filter_records, save_csv and plot_lengths (lines 82-94) on any list of
\* records and any pair of integer bounds
InitLocal ==
    /\ pc = "filter"
    /\ raw_records \in SeqsUpTo(Records, MaxRaw)
    /\ min_len \in -1..(MaxSeqLen + 1)
    /\ max_len \in -1..(MaxSeqLen + 1)
    /\ self = <<>>
    /\ max_records = 0
    /\ start = 0
    /\ all_records = <<>>
    /\ outcome = "running"
    /\ taxid \in TaxIds
    /\ parsed = 2
    /\ configured = TRUE
    /\ ret = 1
    /\ calls = <<>>
    /\ reply = <<>>
    /\ filtered = <<>>
    /\ df = <<>>
    /\ df_sorted = <<>>
    /\ open_figs = 0
    /\ files = <<>>
    /\ reported = -1

NextLocal ==
    \/ MainFilter
    \/ save_csv
    \/ plot_figure
    \/ plot_savefig
    \/ plot_close
    \/ MainReport

SpecLocal == InitLocal /\ [][NextLocal]_vars

(* ====================== properties of the program ===================== *)
\* search has returned to main (line 75 is over)
SearchReturned ==
    \/ pc \in {"searched", "fetch", "filter", "save_csv", "plot", "plot_save",
                "plot_close", "report", "done"}
    \/ pc = "crashed" /\ outcome # "ValueError"

\* filter_records has returned (line 82 is over)
FilterReturned ==
    \/ pc \in {"save_csv", "plot", "plot_save", "plot_close", "report"}
    \/ outcome \in {"no_match", "saved", "csv_error", "plot_error"}

\* save_csv has returned the table (line 90 is over)
TableBuilt ==
    \/ pc \in {"plot", "plot_save", "plot_close", "report"}
    \/ outcome \in {"saved", "plot_error"}

\* plot_lengths has drawn its rows (line 58 is over, savefig did not raise)
Plotted == pc \in {"plot_close", "report"} \/ outcome = "saved"

IsFetchCall(c) == c.fn = "efetch" /\ c.db = "nucleotide"

FetchCalls == SelectSeq(calls, IsFetchCall)

RECURSIVE SumRetmax(_)
SumRetmax(cs) == IF cs = <<>> THEN 0 ELSE Head(cs).retmax + SumRetmax(Tail(cs))

\* the indices of the records of recs whose length lies in lo..hi
Matching(recs, lo, hi) ==
    {i \in 1..Len(recs) : Len(recs[i].seq) >= lo /\ Len(recs[i].seq) <= hi}

\* out is recs restricted to the index set keep, in the order of recs
IsRestriction(out, recs, keep) ==
    /\ Len(out) = Cardinality(keep)
    /\ \E f \in [1..Len(out) -> keep] :
         /\ \A i, j \in 1..Len(out) : i < j => f[i] < f[j]
         /\ \A i \in 1..Len(out) : out[i] = recs[f[i]]

\* the stable sort by length descending, by insertion: each row goes after
\* every row already placed that is at least as long
StableInsert(sorted, row) ==
    LET k == Cardinality({i \in 1..Len(sorted) : sorted[i].length >= row.length})
    IN  SubSeq(sorted, 1, k) \o <<row>> \o SubSeq(sorted, k + 1, Len(sorted))

RECURSIVE StableSortDesc(_)
StableSortDesc(frame) ==
    IF frame = <<>> THEN <<>>
    ELSE StableInsert(StableSortDesc(SubSeq(frame, 1, Len(frame) - 1)), frame[Len(frame)])

\* C1: filter_records(records, lo, hi) returns exactly the records whose
\* sequence length L satisfies lo <= L <= hi, in their original relative
\* order, nothing added, duplicated or dropped; when nothing matches
\* (also when lo > hi) the result is the empty list and no error is raised.
C1_FilterExact ==
    FilterReturned =>
        /\ IsRestriction(filtered, raw_records, Matching(raw_records, min_len, max_len))
        /\ (Matching(raw_records, min_len, max_len) = {} =>
                filtered = <<>> /\ pc = "done" /\ outcome = "no_match")

C1_Witness ==
    /\ pc = "save_csv"
    /\ Len(filtered) = 2
    /\ Len(raw_records) = 3
    /\ ~InRange(raw_records[2], min_len, max_len)

\* C2: fetch_records(max_records), max_records >= 1, issues exactly
\* ceil(max_records / 500) fetch calls in increasing order of offset; the k-th
\* call (k = 0, 1, ...) has retstart = 500k and retmax = min(500, max_records -
\* 500k); the retmax values sum to max_records; every call carries the token
\* pair the retriever holds.
C2_Pagination ==
    /\ \A k \in 1..Len(FetchCalls) :
         /\ FetchCalls[k].retstart = 500 * (k - 1)
         /\ FetchCalls[k].retmax =
                (IF max_records - 500 * (k - 1) < 500
                 THEN max_records - 500 * (k - 1) ELSE 500)
         /\ FetchCalls[k].retmax >= 1
         /\ Has(self, "webenv") /\ Has(self, "query_key")
         /\ FetchCalls[k].webenv = self["webenv"]
         /\ FetchCalls[k].query_key = self["query_key"]
    /\ (pc = "filter" =>
         /\ Len(FetchCalls) = (max_records + 499) \div 500
         /\ SumRetmax(FetchCalls) = max_records)

C2_Witness ==
    /\ pc = "filter"
    /\ max_records = 1200
    /\ Len(calls) = 3
    /\ calls[3].retstart = 1000
    /\ calls[3].retmax = 200

\* C3: a CSV or image file is created only if search returned a non-zero
\* count and the filtered set is non-empty. If search returns 0 the run stops
\* with a normal exit, no fetch call issued and no file written; if filtering
\* yields an empty set the run stops with a normal exit and no file written.
C3_FilesOnlyWithMatches ==
    /\ (files # <<>> => SearchReturned /\ ret # 0 /\ FilterReturned /\ filtered # <<>>)
    /\ (SearchReturned /\ ret = 0 =>
            /\ pc \in {"searched", "done"}
            /\ (pc = "done" => outcome = "no_results")
            /\ FetchCalls = <<>>
            /\ files = <<>>)
    /\ (FilterReturned /\ filtered = <<>> =>
            pc = "done" /\ outcome = "no_match" /\ files = <<>>)

C3_Witness ==
    /\ pc = "done"
    /\ outcome = "no_match"
    /\ Len(raw_records) = 2
    /\ Len(FetchCalls) = 2

\* the taxonomy lookup succeeded / the history-enabled search succeeded
TaxonomyOk == Has(self, "organism")
SearchOk == reply # <<>> /\ DOMAIN reply = SearchKeys

\* C4: search never raises. If the taxonomy lookup or the history-enabled
\* search fails, search returns 0 and the run ends cleanly with "no results";
\* the nucleotide search is not issued when the taxonomy lookup failed. When
\* both steps succeed, search returns the count the service reported.
C4_SearchNeverRaises ==
    /\ (pc = "crashed" => outcome = "ValueError" \/ (SearchReturned /\ ret # 0))
    /\ (SearchReturned /\ ~(TaxonomyOk /\ SearchOk) =>
            /\ ret = 0
            /\ pc \in {"searched", "done"}
            /\ (pc = "done" => outcome = "no_results"))
    /\ (~TaxonomyOk => \A i \in 1..Len(calls) : calls[i].fn # "esearch")
    /\ (SearchReturned /\ TaxonomyOk /\ SearchOk => ret = reply["Count"])

C4_Witness ==
    /\ pc = "done"
    /\ outcome = "no_results"
    /\ Has(self, "webenv")
    /\ ~Has(self, "query_key")
    /\ reply["Count"] = 1

\* C5: an error in a batch of fetch_records is not caught: it ends the loop
\* and the run (a fatal failure), and no file is written in that run. Nothing
\* is retried: every external call (taxonomy lookup, search, the fetch at a
\* given offset) is attempted at most once in a run.
C5_FetchErrorFatalNoRetry ==
    /\ (outcome = "fetch_error" =>
            /\ pc = "crashed"
            /\ files = <<>>
            /\ raw_records = <<>>
            /\ calls[Len(calls)].retstart = start
            /\ Len(FetchCalls) = (start \div 500) + 1)
    /\ \A i, j \in 1..Len(calls) :
            i # j =>
                \/ calls[i].fn # calls[j].fn
                \/ calls[i].db # calls[j].db
                \/ (IsFetchCall(calls[i]) /\ calls[i].retstart # calls[j].retstart)

C5_Witness ==
    /\ outcome = "fetch_error"
    /\ start = 500
    /\ all_records # <<>>

\* C6: the table save_csv builds has one row {accession, length,
\* description} per input record, sorted non-increasing by length, rows of
\* equal length in their original relative order (a stable sort).
C6_TableStableSorted ==
    TableBuilt => df = StableSortDesc(DataFrame(filtered))

\* C7: the rows plot_lengths plots are the rows written to the CSV, in the
\* same order, and both are the fetched records with min_len <= length <=
\* max_len: re-sorting the sorted table changes nothing, ties included.
C7_PlotMatchesCsv ==
    Plotted =>
        /\ df_sorted = files[1].rows
        /\ \E p \in Perms(Len(filtered)) :
              \A i \in 1..Len(filtered) : files[1].rows[i] = Row(filtered[p[i]])

\* C8: plot_lengths releases the figure it opened on every exit path: once
\* the call has returned or raised, no figure it opened remains open.
C8_FigureReleased ==
    pc \in {"report", "done", "crashed"} => open_figs = 0

\* C9: when search returns a non-zero count and the filtered set is
\* non-empty, the run writes taxid_<ID>_filtered.csv first and then
\* taxid_<ID>_plot.png, and the count it reports is the number of data rows
\* of the CSV; every run that ends normally has written both files or neither.
C9_CsvThenImage ==
    /\ Len(files) <= 2
    /\ (Len(files) >= 1 => files[1].name = csv_name(taxid))
    /\ (Len(files) = 2 => files[2].name = png_name(taxid))
    /\ (pc = "done" => Len(files) \in {0, 2})
    /\ (pc = "done" /\ ret # 0 /\ filtered # <<>> =>
            /\ outcome = "saved"
            /\ Len(files) = 2
            /\ reported = Len(files[1].rows))
    /\ (reported # -1 => outcome = "saved")

C9_Witness ==
    /\ pc = "done"
    /\ outcome = "saved"
    /\ Len(files) = 2
    /\ reported = 2
    /\ Len(raw_records) = 3

\* C10: fetch_records is only invoked when the same run's search has stored
\* both parts of the token pair; a search that fails at either step returns 0
\* and never leads to a fetch with a missing or partly stored token; both
\* length bounds are parsed before the client is configured or any remote
\* call is made.
C10_FetchOnlyWithTokens ==
    /\ (pc = "fetch" \/ FetchCalls # <<>> =>
            /\ Has(self, "webenv") /\ Has(self, "query_key")
            /\ SearchOk
            /\ self["webenv"] = reply["WebEnv"]
            /\ self["query_key"] = reply["QueryKey"])
    /\ outcome # "AttributeError"
    /\ (configured \/ calls # <<>> => parsed = 2)

C10_Witness ==
    /\ pc = "fetch"
    /\ start = 500
    /\ Len(FetchCalls) = 1
    /\ FetchCalls[1].webenv = "MCID_2"

====
